---------------------------- MODULE Spec2Model ----------------------------
(***************************************************************************)
(* X402 payment negotiation of x402-cdp-integration (python).              *)
(*                                                                         *)
(*   Spec        CustomX402Client.make_payment_request, one asyncio task   *)
(*               per call, cut at its await points (probe, signer, paid    *)
(*               request).                                                 *)
(*   SendSpec    CustomX402Client._send_payment_request over the           *)
(*               requests.Session mounted with urllib3 Retry in __init__.  *)
(*   VerifySpec  PaymentService.verify_payment against the facilitator.    *)
(*                                                                         *)
(* Python dicts are functions with string domains (a missing key is a key  *)
(* outside DOMAIN), None is the string "None", an exception text is the    *)
(* sequence of the fragments the f-strings nest.                           *)
(***************************************************************************)
EXTENDS Integers, Sequences, FiniteSets, TLC

VARIABLES
    \* ---- make_payment_request (Spec)
    pc,          \* position of the call: idle, probing, signing, retrying, done
    callNo,      \* calls made so far on this client
    config,      \* self.config.get_x402_config()
    now,         \* int(time.time())
    url,         \* argument url
    amount,      \* argument amount (None when not given)
    probe,       \* the probe's response, [status, body]
    reqs,        \* payment_requirements
    cost,        \* discovered_cost
    auth,        \* authorization built by _create_authorization_object
    signature,   \* what the signer returned
    sent,        \* requests put on the wire by this call, in order
    signerLog,   \* sign_typed_data invocations of this call, in order
    built,       \* authorizations built by this call, in order
    signerErr,   \* TRUE once the signer raised in this call
    result,      \* the dict make_payment_request returned
    drawn,       \* values secrets.token_hex returned in this process, in order
    builtNonces, \* nonces of the authorizations built in this process, in order
    paid,        \* the paid request's response, [status, body], once received
    \* ---- _send_payment_request (SendSpec)
    spc,         \* idle, sending, done
    sPayload,    \* argument payment_payload
    retriesLeft, \* Retry.total still available to the adapter
    wire,        \* X-PAYMENT header values put on the wire, in order
    sOutcome,    \* returned dict, or the raised PaymentRequestError
    \* ---- verify_payment (VerifySpec)
    vpc,         \* idle, posted, done
    vData,       \* argument payment_data
    vArgs,       \* arguments resource_path, receiving_address
    posted,      \* bodies POSTed to the facilitator by this call
    vReply,      \* what the facilitator call produced
    vResult,     \* [returned, value, raised]
    served,      \* verify_payment calls completed
    verified,    \* complete authorizations verify_payment returned True for
    \* ---- the payment gate in front of the priced routes (GateSpec)
    inflight,    \* per request slot: [stage, path, header, ran, verdict, response]
    \* ---- make_payment_request calls in flight together (ConcSpec)
    calls,       \* per call: its locals and what it sent
    \* ---- a tier command (CommandSpec)
    cmd          \* the command's position, balance outcome and requests

clientVars == <<pc, callNo, config, now, url, amount, probe, reqs, cost, auth,
                signature, sent, signerLog, built, signerErr, result,
                drawn, builtNonces, paid>>
historyVars == <<drawn, builtNonces>>
sendVars   == <<spc, sPayload, retriesLeft, wire, sOutcome>>
verifyVars == <<vpc, vData, vArgs, posted, vReply, vResult, served, verified>>
gateVars   == <<inflight>>
concVars   == <<calls>>
cmdVars    == <<cmd>>
vars       == <<clientVars, sendVars, verifyVars, gateVars, concVars, cmdVars>>

-----------------------------------------------------------------------------
(* Bounds of the model *)
MaxCalls == 2
MaxTime == 1
MaxNonce == 2
MaxServed == 2
MaxInflight == 2
MaxCommands == 2

(* Program constants *)
GraceWindow == 60
RetryTotal == 3
SupportedVersion == 1

-----------------------------------------------------------------------------
(* Values *)
None == "None"

\* Python truthiness of the str-or-None values that reach all([...]) and `or`
Truthy(v) == v \notin {None, ""}

Get(d, k, default) == IF k \in DOMAIN d THEN d[k] ELSE default

DefaultAsset == "0x036CbD53842c5426634e7929541eC2318f3dCF7e"
FallbackRecipient == "0xe93cb61e3f327F344c09D5dFffE25fb0B0cFA65d"
PayerAddress == "0xPayer"

\* str(n) of an int: a value that is not the int itself
Str(n) == [str |-> n]

StatusText ==
    [s \in {200, 402, 404, 429, 500, 502, 503, 504} |->
        CASE s = 200 -> "200" [] s = 402 -> "402" [] s = 404 -> "404"
          [] s = 429 -> "429" [] s = 500 -> "500" [] s = 502 -> "502"
          [] s = 503 -> "503" [] s = 504 -> "504"]


-----------------------------------------------------------------------------
(* Inputs: what the server may answer, what the caller may pass *)

ReqProtected ==
    [scheme |-> "exact", network |-> "base-sepolia", maxAmountRequired |-> "10000",
     payTo |-> "0xRecipient", resource |-> "/protected", asset |-> DefaultAsset]
ReqPremium ==
    [scheme |-> "exact", network |-> "base-sepolia", maxAmountRequired |-> "100000",
     payTo |-> "0xRecipient", resource |-> "/premium", asset |-> DefaultAsset]
\* snake-case recipient key, another asset, no resource
ReqSnake ==
    [scheme |-> "exact", network |-> "base", maxAmountRequired |-> "10000",
     pay_to |-> "0xOther", asset |-> "0xOtherAsset"]
\* no amount and no asset
ReqNoAmount ==
    [scheme |-> "exact", network |-> "base-sepolia", payTo |-> "0xRecipient"]

TextBody(t) == [kind |-> "text", text |-> t]
JsonBody(d) == [kind |-> "dict", json |-> d]
ListBody == [kind |-> "list"]

ChallengeBodies ==
    { JsonBody([x402Version |-> 1, accepts |-> <<ReqProtected>>]),
      JsonBody([x402Version |-> 1, accepts |-> <<ReqPremium, ReqProtected>>]),
      JsonBody([x402Version |-> 1, accepts |-> <<ReqProtected, ReqSnake>>]),
      JsonBody([x402Version |-> 1, accepts |-> <<ReqSnake>>]),
      JsonBody([x402Version |-> 1, accepts |-> <<ReqNoAmount>>]),
      JsonBody([x402Version |-> 2, accepts |-> <<ReqProtected>>]),
      JsonBody([accepts |-> <<ReqProtected>>]),
      JsonBody([x402Version |-> 1, accepts |-> <<>>]),
      JsonBody([x402Version |-> 1]),
      ListBody,
      TextBody("Payment Required") }

ProbeResponses ==
    { [status |-> 200, body |-> JsonBody([tier |-> "free"])],
      [status |-> 404, body |-> TextBody("Not Found")],
      [status |-> 500, body |-> TextBody("Internal Server Error")] }
    \cup { [status |-> 402, body |-> b] : b \in ChallengeBodies }

PaymentResponses ==
    { [status |-> 200, body |-> JsonBody([paymentVerified |-> TRUE])],
      [status |-> 200, body |-> TextBody("OK")],
      [status |-> 402, body |-> JsonBody([x402Version |-> 1, error |-> "signature mismatch"])],
      [status |-> 500, body |-> TextBody("Internal Server Error")] }

Urls == {"http://localhost:5001/protected"}
AmountArgs == {None, "5000", "abc"}
X402Configs == { [scheme |-> "exact", network |-> "base-sepolia"], [facilitator_url |-> "f"] }
Nonces == 1..MaxNonce
SignatureKinds == {"hex", "bytes"}

-----------------------------------------------------------------------------
(* CustomX402Client: the pure helpers *)

\* get_key(d, *keys): the value of the first key present, else None
GetKey(d, keys) ==
    LET present == {i \in 1..Len(keys) : keys[i] \in DOMAIN d}
    IN  IF present = {} THEN None
        ELSE d[keys[CHOOSE i \in present : \A j \in present : i <= j]]

\* x402_data.get('x402Version') or x402_data.get('x402_version'), as a set:
\* empty for None
VersionOf(d) ==
    IF "x402Version" \in DOMAIN d /\ d.x402Version # 0 THEN {d.x402Version}
    ELSE IF "x402_version" \in DOMAIN d THEN {d.x402_version}
    ELSE {}

\* _parse_x402_response: raises unless the body is JSON with x402Version == 1
ParseX402Response(body) ==
    IF body.kind = "text"
    THEN [ok |-> FALSE, error |-> <<"Invalid JSON response">>]
    ELSE IF body.kind # "dict"
    THEN [ok |-> FALSE, error |-> <<"Failed to parse X402 response">>]
    ELSE IF VersionOf(body.json) = {SupportedVersion}
    THEN [ok |-> TRUE, data |-> body.json]
    ELSE [ok |-> FALSE,
          error |-> <<"Failed to parse X402 response", "Unsupported X402 version">>]

\* variant: the last accepted requirement is selected
ExtractPaymentRequirementsLast(body) ==
    IF body.kind # "dict"
    THEN [ok |-> FALSE, error |-> <<"AttributeError">>]
    ELSE LET accepts == Get(body.json, "accepts", <<>>)
         IN  IF accepts = <<>>
             THEN [ok |-> FALSE, error |-> <<"No payment schemes accepted">>]
             ELSE LET pr == accepts[Len(accepts)]
                  IN  [ok |-> TRUE,
                       req |-> [scheme    |-> GetKey(pr, <<"scheme">>),
                                network   |-> GetKey(pr, <<"network">>),
                                amount    |-> GetKey(pr, <<"maxAmountRequired">>),
                                recipient |-> GetKey(pr, <<"payTo", "pay_to">>),
                                resource  |-> GetKey(pr, <<"resource">>),
                                asset     |-> GetKey(pr, <<"asset">>),
                                extra     |-> GetKey(pr, <<"extra">>)]]

\* _extract_payment_requirements on the parsed 402 body
ExtractPaymentRequirements(body) ==
    IF body.kind # "dict"
    THEN [ok |-> FALSE, error |-> <<"AttributeError">>]
    ELSE LET accepts == Get(body.json, "accepts", <<>>)
         IN  IF accepts = <<>>
             THEN [ok |-> FALSE, error |-> <<"No payment schemes accepted">>]
             ELSE LET pr == accepts[1]
                  IN  [ok |-> TRUE,
                       req |-> [scheme    |-> GetKey(pr, <<"scheme">>),
                                network   |-> GetKey(pr, <<"network">>),
                                amount    |-> GetKey(pr, <<"maxAmountRequired">>),
                                recipient |-> GetKey(pr, <<"payTo", "pay_to">>),
                                resource  |-> GetKey(pr, <<"resource">>),
                                asset     |-> GetKey(pr, <<"asset">>),
                                extra     |-> GetKey(pr, <<"extra">>)]]

\* the except branch of make_payment_request: "Fallback to config values"
FallbackRequirements(amt, cfg) ==
    [scheme    |-> Get(cfg, "scheme", "exact"),
     network   |-> Get(cfg, "network", "base-sepolia"),
     amount    |-> IF Truthy(amt) THEN amt ELSE "10000",
     recipient |-> FallbackRecipient,
     asset     |-> DefaultAsset]

\* payment_requirements of make_payment_request for a JSON 402 body
PaymentRequirements(body, amt, cfg) ==
    LET ex == ExtractPaymentRequirements(body)
    IN  IF ex.ok THEN ex.req ELSE FallbackRequirements(amt, cfg)

\* variant: the caller's amount (or the default) is used whatever was discovered
DiscoveredCostFromArgument(pr, amt) ==
    IF Truthy(amt) THEN amt ELSE "10000"

\* discovered_cost = payment_requirements.get('amount', amount or "10000")
DiscoveredCost(pr, amt) ==
    Get(pr, "amount", IF Truthy(amt) THEN amt ELSE "10000")

\* the keyword arguments make_payment_request gives _create_payment_payload
PayloadArgs(pr, dc, cfg) ==
    [scheme    |-> Get(pr, "scheme", Get(cfg, "scheme", "exact")),
     network   |-> Get(pr, "network", Get(cfg, "network", "base-sepolia")),
     amount    |-> dc,
     recipient |-> Get(pr, "recipient", FallbackRecipient),
     resource  |-> Get(pr, "resource", None),
     asset     |-> Get(pr, "asset", DefaultAsset),
     extra     |-> Get(pr, "extra", None)]

\* variant: the amount is not among the parameters that must be present
RequiredPresentNoAmount(a) ==
    Truthy(a.scheme) /\ Truthy(a.network) /\ Truthy(a.recipient)

\* if not all([scheme, network, amount, recipient]): raise
RequiredPresent(a) ==
    Truthy(a.scheme) /\ Truthy(a.network) /\ Truthy(a.amount) /\ Truthy(a.recipient)

\* asset = asset or "0x036C..."
AssetOrDefault(asset) == IF Truthy(asset) THEN asset ELSE DefaultAsset

CreateEip712Domain(asset) ==
    [name |-> "USDC", version |-> "2", chainId |-> 84532, verifyingContract |-> asset]

\* the fields of the authorization object
AuthorizationFields == {"from", "to", "value", "validAfter", "validBefore", "nonce"}

\* variant: the nonce is a value fixed once, not the one just drawn
CreateAuthorizationObjectFixedNonce(recipient, amt, deadline, nonce) ==
    [from |-> PayerAddress, to |-> recipient, value |-> amt,
     validAfter |-> "0", validBefore |-> Str(deadline), nonce |-> 1]

\* variant: the grace window is added a second time
CreateAuthorizationObjectLongWindow(recipient, amt, deadline, nonce) ==
    [from |-> PayerAddress, to |-> recipient, value |-> amt,
     validAfter |-> "0", validBefore |-> Str(deadline + GraceWindow), nonce |-> nonce]

\* nonce is the value secrets.token_hex(32) returned
CreateAuthorizationObject(recipient, amt, deadline, nonce) ==
    [from |-> PayerAddress, to |-> recipient, value |-> amt,
     validAfter |-> "0", validBefore |-> Str(deadline), nonce |-> nonce]

\* variant: the structure is given an authorization with a nonce drawn anew
CreatePaymentPayloadStructureNewNonce(scheme, network, sig, authorization, resource) ==
    LET redrawn == [authorization EXCEPT !.nonce = @ + 1]
    IN  IF Truthy(resource)
        THEN [x402Version |-> 1, scheme |-> scheme, network |-> network,
              payload |-> [signature |-> sig, authorization |-> redrawn],
              resource |-> resource]
        ELSE [x402Version |-> 1, scheme |-> scheme, network |-> network,
              payload |-> [signature |-> sig, authorization |-> redrawn]]

CreatePaymentPayloadStructure(scheme, network, sig, authorization, resource) ==
    LET base == [x402Version |-> 1, scheme |-> scheme, network |-> network,
                 payload |-> [signature |-> sig, authorization |-> authorization]]
    IN  IF Truthy(resource)
        THEN [x402Version |-> 1, scheme |-> scheme, network |-> network,
              payload |-> [signature |-> sig, authorization |-> authorization],
              resource |-> resource]
        ELSE base

\* json.dumps raises TypeError on a value that is not JSON-serializable (bytes)
Serializable(payload) == payload.payload.signature.kind = "hex"

\* variant: the optional resource member is left out of the text
JsonDumpsNoResource(payload) ==
    LET a == payload.payload.authorization
    IN  << <<<<"x402Version">>, payload.x402Version>>,
           <<<<"scheme">>, payload.scheme>>,
           <<<<"network">>, payload.network>>,
           <<<<"payload", "signature">>, payload.payload.signature>>,
           <<<<"payload", "authorization", "from">>, a.from>>,
           <<<<"payload", "authorization", "to">>, a.to>>,
           <<<<"payload", "authorization", "value">>, a.value>>,
           <<<<"payload", "authorization", "validAfter">>, a.validAfter>>,
           <<<<"payload", "authorization", "validBefore">>, a.validBefore>>,
           <<<<"payload", "authorization", "nonce">>, a.nonce>> >>

\* json.dumps(payload, separators=(',', ':')): the text as its members in
\* insertion order, each a <<path of keys, value>> token
JsonDumps(payload) ==
    LET a == payload.payload.authorization
        head == << <<<<"x402Version">>, payload.x402Version>>,
                   <<<<"scheme">>, payload.scheme>>,
                   <<<<"network">>, payload.network>>,
                   <<<<"payload", "signature">>, payload.payload.signature>>,
                   <<<<"payload", "authorization", "from">>, a.from>>,
                   <<<<"payload", "authorization", "to">>, a.to>>,
                   <<<<"payload", "authorization", "value">>, a.value>>,
                   <<<<"payload", "authorization", "validAfter">>, a.validAfter>>,
                   <<<<"payload", "authorization", "validBefore">>, a.validBefore>>,
                   <<<<"payload", "authorization", "nonce">>, a.nonce>> >>
    IN  IF "resource" \in DOMAIN payload
        THEN Append(head, <<<<"resource">>, payload.resource>>)
        ELSE head

\* json.loads: the object the member tokens describe (a repeated key keeps
\* its last value)
RECURSIVE JsonLoads(_)
JsonLoads(toks) ==
    LET keys == {toks[i][1][1] : i \in 1..Len(toks)}
    IN  [k \in keys |->
            LET sub == SelectSeq(toks, LAMBDA t : t[1][1] = k)
                last == sub[Len(sub)]
            IN  IF Len(last[1]) = 1
                THEN last[2]
                ELSE JsonLoads([i \in 1..Len(sub) |-> <<Tail(sub[i][1]), sub[i][2]>>])]

\* base64.b64encode(payload_json.encode()).decode()
EncodePaymentPayload(payload) == [b64 |-> JsonDumps(payload)]

\* base64.b64decode(x_payment).decode('utf-8') then json.loads, as the server
\* side does on the X-PAYMENT header; a header is [b64 |-> tokens] (base64 of
\* a JSON text), [b64text |-> t] (base64 of a text that is not JSON) or
\* [raw |-> t] (not base64)
DecodePaymentHeader(h) ==
    IF "raw" \in DOMAIN h THEN [ok |-> FALSE, error |-> "binascii.Error"]
    ELSE IF "b64text" \in DOMAIN h THEN [ok |-> FALSE, error |-> "JSONDecodeError"]
    ELSE [ok |-> TRUE, data |-> JsonLoads(h.b64)]


-----------------------------------------------------------------------------
(* CustomX402Client.make_payment_request *)

NoValue == [none |-> TRUE]

\* except Exception as e: return {"success": False, "error": str(e)}
ExceptionResult(msg) == [success |-> FALSE, error |-> msg]

\* the else branch: any status other than 402
OtherStatusResult(status, body) ==
    [success |-> TRUE,
     data |-> [message |-> "No payment required", status |-> status],
     raw_response |-> body]

\* the outcome of the paid request
PaidResult(status, body, dc) ==
    IF status = 200
    THEN IF body.kind = "text"
         THEN ExceptionResult(<<"ContentTypeError">>)   \* payment_response.json() raises
         ELSE [success |-> TRUE, data |-> body.json, cost |-> dc]
    ELSE [success |-> FALSE,
          error |-> <<"Payment failed", StatusText[status]>>,
          details |-> body]

\* variant: the payment flow is entered on a 200 as well
NeedsPaymentOnSuccess(status) == status \in {200, 402}

\* if response.status == 402
NeedsPayment(status) == status = 402

HasPayment(r) == "xpayment" \in DOMAIN r

ClientInit ==
    /\ pc = "idle"
    /\ callNo = 0
    /\ config \in X402Configs
    /\ now = 0
    /\ url = None
    /\ amount = None
    /\ probe = NoValue
    /\ reqs = NoValue
    /\ cost = None
    /\ auth = NoValue
    /\ signature = NoValue
    /\ sent = <<>>
    /\ signerLog = <<>>
    /\ built = <<>>
    /\ signerErr = FALSE
    /\ result = NoValue
    /\ drawn = <<>>
    /\ builtNonces = <<>>
    /\ paid = NoValue

\* the caller invokes make_payment_request(url, amount); the task runs up to
\* its first await, session.get(url), which puts the bare request on the wire
StartCall(u, amt) ==
    /\ UNCHANGED <<sendVars, verifyVars, historyVars, gateVars, concVars, cmdVars>>
    /\ paid' = NoValue
    /\ pc = "idle"
    /\ callNo < MaxCalls
    /\ callNo' = callNo + 1
    /\ url' = u
    /\ amount' = amt
    /\ sent' = <<[url |-> u]>>
    /\ pc' = "probing"
    /\ probe' = NoValue
    /\ reqs' = NoValue
    /\ cost' = None
    /\ auth' = NoValue
    /\ signature' = NoValue
    /\ signerLog' = <<>>
    /\ built' = <<>>
    /\ signerErr' = FALSE
    /\ result' = NoValue
    /\ UNCHANGED <<config, now>>

Return(res) ==
    /\ result' = res
    /\ pc' = "done"

\* the probe is answered; the task runs on to its next await: the signer
\* call inside _create_payment_payload, or it returns
ProbeResponds(resp, nonce) ==
    /\ UNCHANGED <<sendVars, verifyVars, gateVars, paid, concVars, cmdVars>>
    /\ pc = "probing"
    /\ probe' = resp
    /\ IF NeedsPayment(resp.status)
       THEN IF resp.body.kind = "text"
            THEN \* await response.json() raises
                 /\ Return(ExceptionResult(<<"ContentTypeError">>))
                 /\ UNCHANGED <<reqs, cost, auth, signerLog, built, historyVars>>
            ELSE LET pr == PaymentRequirements(resp.body, amount, config)
                     dc == DiscoveredCost(pr, amount)
                     a  == PayloadArgs(pr, dc, config)
                     au == CreateAuthorizationObject(a.recipient, a.amount,
                                                     now + GraceWindow, nonce)
                 IN  /\ reqs' = pr
                     /\ cost' = dc
                     /\ IF RequiredPresent(a)
                        THEN /\ auth' = au
                             /\ built' = Append(built, au)
                             /\ drawn' = Append(drawn, nonce)
                             /\ builtNonces' = Append(builtNonces, au.nonce)
                             /\ signerLog' = Append(signerLog,
                                   [domain |-> CreateEip712Domain(AssetOrDefault(a.asset)),
                                    primary_type |-> "TransferWithAuthorization",
                                    message |-> au])
                             /\ pc' = "signing"
                             /\ UNCHANGED result
                        ELSE /\ Return(ExceptionResult(
                                   <<"Payment payload creation failed",
                                     "Missing required parameters for payment payload">>))
                             /\ UNCHANGED <<auth, signerLog, built, historyVars>>
       ELSE /\ Return(OtherStatusResult(resp.status, resp.body))
            /\ UNCHANGED <<reqs, cost, auth, signerLog, built, historyVars>>
    /\ UNCHANGED <<callNo, config, now, url, amount, signature, sent, signerErr>>

\* session.get(url) raises (connection refused, timeout)
ProbeFails ==
    /\ UNCHANGED <<sendVars, verifyVars, historyVars, gateVars, paid, concVars, cmdVars>>
    /\ pc = "probing"
    /\ Return(ExceptionResult(<<"ClientConnectorError">>))
    /\ UNCHANGED <<callNo, config, now, url, amount, probe, reqs, cost, auth,
                   signature, sent, signerLog, built, signerErr>>

\* variant: the payload is structured and encoded while the signer is still
\* running, with the signature member not yet filled in
SignerReturnsEncodedEarly(kind) ==
    /\ UNCHANGED <<sendVars, verifyVars, historyVars, gateVars, paid, concVars, cmdVars>>
    /\ pc = "signing"
    /\ LET a   == PayloadArgs(reqs, cost, config)
           sig == [kind |-> kind, by |-> PayerAddress,
                   domain |-> CreateEip712Domain(AssetOrDefault(a.asset)),
                   message |-> auth]
           payload == CreatePaymentPayloadStructure(a.scheme, a.network, NoValue,
                                                    auth, a.resource)
       IN  /\ signature' = sig
           /\ sent' = Append(sent, [url |-> url,
                                    xpayment |-> EncodePaymentPayload(payload)])
           /\ pc' = "retrying"
           /\ UNCHANGED result
    /\ UNCHANGED <<callNo, config, now, url, amount, probe, reqs, cost, auth,
                   signerLog, built, signerErr>>

\* sign_typed_data returns; the payload is structured, encoded and sent in
\* the X-PAYMENT header of the second session.get
SignerReturns(kind) ==
    /\ UNCHANGED <<sendVars, verifyVars, historyVars, gateVars, paid, concVars, cmdVars>>
    /\ pc = "signing"
    /\ LET a   == PayloadArgs(reqs, cost, config)
           sig == [kind |-> kind, by |-> PayerAddress,
                   domain |-> CreateEip712Domain(AssetOrDefault(a.asset)),
                   message |-> auth]
           payload == CreatePaymentPayloadStructure(a.scheme, a.network, sig,
                                                    auth, a.resource)
       IN  /\ signature' = sig
           /\ IF Serializable(payload)
              THEN /\ sent' = Append(sent, [url |-> url,
                                            xpayment |-> EncodePaymentPayload(payload)])
                   /\ pc' = "retrying"
                   /\ UNCHANGED result
              ELSE /\ Return(ExceptionResult(
                         <<"Payment payload creation failed",
                           "Failed to encode payment payload">>))
                   /\ UNCHANGED sent
    /\ UNCHANGED <<callNo, config, now, url, amount, probe, reqs, cost, auth,
                   signerLog, built, signerErr>>

\* variant: the signing failure is swallowed and the payload goes out unsigned
SignerRaisesSendsUnsigned ==
    /\ UNCHANGED <<sendVars, verifyVars, historyVars, gateVars, paid, concVars, cmdVars>>
    /\ pc = "signing"
    /\ signerErr' = TRUE
    /\ LET a == PayloadArgs(reqs, cost, config)
           payload == CreatePaymentPayloadStructure(a.scheme, a.network,
                         [kind |-> "hex", by |-> None, domain |-> None, message |-> None],
                         auth, a.resource)
       IN  sent' = Append(sent, [url |-> url, xpayment |-> EncodePaymentPayload(payload)])
    /\ pc' = "retrying"
    /\ UNCHANGED <<callNo, config, now, url, amount, probe, reqs, cost, auth,
                   signature, signerLog, built, result>>

\* variant: the wrapping exception does not carry the inner message
SignerRaisesGeneric ==
    /\ UNCHANGED <<sendVars, verifyVars, historyVars, gateVars, paid, concVars, cmdVars>>
    /\ pc = "signing"
    /\ signerErr' = TRUE
    /\ Return(ExceptionResult(<<"Payment payload creation failed">>))
    /\ UNCHANGED <<callNo, config, now, url, amount, probe, reqs, cost, auth,
                   signature, sent, signerLog, built>>

\* sign_typed_data raises: SignatureError, wrapped in PaymentPayloadError,
\* caught by the outer except
SignerRaises ==
    /\ UNCHANGED <<sendVars, verifyVars, historyVars, gateVars, paid, concVars, cmdVars>>
    /\ pc = "signing"
    /\ signerErr' = TRUE
    /\ Return(ExceptionResult(<<"Payment payload creation failed",
                                "Failed to sign payment data">>))
    /\ UNCHANGED <<callNo, config, now, url, amount, probe, reqs, cost, auth,
                   signature, sent, signerLog, built>>

\* variant: a rejected paid request is sent once more
PaymentRespondsRetrying(resp) ==
    /\ UNCHANGED <<sendVars, verifyVars, historyVars, gateVars, concVars, cmdVars>>
    /\ paid' = resp
    /\ pc = "retrying"
    /\ IF resp.status # 200 /\ Len(sent) < 3
       THEN /\ sent' = Append(sent, sent[Len(sent)])
            /\ UNCHANGED <<pc, result>>
       ELSE /\ Return(PaidResult(resp.status, resp.body, cost))
            /\ UNCHANGED sent
    /\ UNCHANGED <<callNo, config, now, url, amount, probe, reqs, cost, auth,
                   signature, signerLog, built, signerErr>>

\* the paid request is answered
PaymentResponds(resp) ==
    /\ UNCHANGED <<sendVars, verifyVars, historyVars, gateVars, concVars, cmdVars>>
    /\ paid' = resp
    /\ pc = "retrying"
    /\ Return(PaidResult(resp.status, resp.body, cost))
    /\ UNCHANGED <<callNo, config, now, url, amount, probe, reqs, cost, auth,
                   signature, sent, signerLog, built, signerErr>>

\* the paid session.get raises
PaymentFails ==
    /\ UNCHANGED <<sendVars, verifyVars, historyVars, gateVars, paid, concVars, cmdVars>>
    /\ pc = "retrying"
    /\ Return(ExceptionResult(<<"ClientConnectorError">>))
    /\ UNCHANGED <<callNo, config, now, url, amount, probe, reqs, cost, auth,
                   signature, sent, signerLog, built, signerErr>>

\* the caller has the result; the client object is ready for another call
Finish ==
    /\ UNCHANGED <<sendVars, verifyVars, historyVars, gateVars, paid, concVars, cmdVars>>
    /\ pc = "done"
    /\ callNo < MaxCalls
    /\ pc' = "idle"
    /\ UNCHANGED <<callNo, config, now, url, amount, probe, reqs, cost, auth,
                   signature, sent, signerLog, built, signerErr, result>>

\* the wall clock advances
Tick ==
    /\ UNCHANGED <<sendVars, verifyVars, historyVars, gateVars, paid, concVars, cmdVars>>
    /\ now < MaxTime
    /\ now' = now + 1
    /\ UNCHANGED <<pc, callNo, config, url, amount, probe, reqs, cost, auth,
                   signature, sent, signerLog, built, signerErr, result>>

ClientNext ==
    \/ \E u \in Urls, amt \in AmountArgs : StartCall(u, amt)
    \/ \E resp \in ProbeResponses, n \in Nonces : ProbeResponds(resp, n)
    \/ ProbeFails
    \/ \E k \in SignatureKinds : SignerReturns(k)
    \/ SignerRaises
    \/ \E resp \in PaymentResponses : PaymentResponds(resp)
    \/ PaymentFails
    \/ Finish
    \/ Tick


-----------------------------------------------------------------------------
(* CustomX402Client._send_payment_request over self.session, the            *)
(* requests.Session whose adapter retries with                              *)
(* Retry(total=3, status_forcelist=[429, 500, 502, 503, 504])               *)

StatusForcelist == {429, 500, 502, 503, 504}

SendPayloads ==
    { EncodePaymentPayload(
          CreatePaymentPayloadStructure(r.scheme, r.network,
              [kind |-> "hex", by |-> PayerAddress,
               domain |-> CreateEip712Domain(r.asset),
               message |-> CreateAuthorizationObject(r.payTo, r.maxAmountRequired,
                                                     GraceWindow, n)],
              CreateAuthorizationObject(r.payTo, r.maxAmountRequired, GraceWindow, n),
              r.resource))
      : r \in {ReqProtected, ReqPremium}, n \in Nonces }

SendResponses ==
    { [status |-> 200, body |-> JsonBody([paymentVerified |-> TRUE])],
      [status |-> 402, body |-> JsonBody([error |-> "signature mismatch"])],
      [status |-> 402, body |-> TextBody("Payment Required")],
      [status |-> 404, body |-> JsonBody([detail |-> "Not Found"])],
      [status |-> 429, body |-> TextBody("Too Many Requests")],
      [status |-> 500, body |-> TextBody("Internal Server Error")],
      [status |-> 503, body |-> TextBody("Service Unavailable")] }

\* the dict _send_payment_request returns for a response the adapter hands back
SendResult(status, body) ==
    IF status = 200
    THEN [success |-> TRUE, status_code |-> 200,
          data |-> IF body.kind = "dict" THEN body.json ELSE body.text]
    ELSE IF body.kind = "dict"
    THEN [success |-> FALSE, status_code |-> status,
          error |-> Get(body.json, "error",
                        <<"Payment failed with status", StatusText[status]>>),
          details |-> body.json]
    ELSE [success |-> FALSE, status_code |-> status,
          error |-> <<"Payment failed with status", StatusText[status]>>,
          details |-> body.text]

\* except Exception as e: raise PaymentRequestError(...)
SendRaised(why) == [raised |-> TRUE, error |-> <<"Payment request failed", why>>]

\* Retry.is_retry for a GET
IsRetry(status) == status \in StatusForcelist

\* what the adapter puts on the wire when it retries: the request it was given
Resend(payload) == payload

SendInit ==
    /\ spc = "idle"
    /\ sPayload = NoValue
    /\ retriesLeft = 0
    /\ wire = <<>>
    /\ sOutcome = NoValue

\* _send_payment_request(url, payment_payload): self.session.get sends
SendStart(payload) ==
    /\ spc = "idle"
    /\ sPayload' = payload
    /\ retriesLeft' = RetryTotal
    /\ wire' = <<payload>>
    /\ sOutcome' = NoValue
    /\ spc' = "sending"
    /\ UNCHANGED <<clientVars, verifyVars, gateVars, concVars, cmdVars>>

\* a response arrives at the adapter
SendResponds(resp) ==
    /\ spc = "sending"
    /\ IF IsRetry(resp.status)
       THEN IF retriesLeft > 0
            THEN /\ retriesLeft' = retriesLeft - 1
                 /\ wire' = Append(wire, Resend(sPayload))
                 /\ UNCHANGED <<spc, sOutcome>>
            ELSE \* MaxRetryError, raised by requests as RetryError
                 /\ sOutcome' = SendRaised(<<"too many error responses", StatusText[resp.status]>>)
                 /\ spc' = "done"
                 /\ UNCHANGED <<retriesLeft, wire>>
       ELSE /\ sOutcome' = [raised |-> FALSE, value |-> SendResult(resp.status, resp.body)]
            /\ spc' = "done"
            /\ UNCHANGED <<retriesLeft, wire>>
    /\ UNCHANGED sPayload
    /\ UNCHANGED <<clientVars, verifyVars, gateVars, concVars, cmdVars>>

\* the connection fails under the adapter
SendConnectionError ==
    /\ spc = "sending"
    /\ IF retriesLeft > 0
       THEN /\ retriesLeft' = retriesLeft - 1
            /\ wire' = Append(wire, Resend(sPayload))
            /\ UNCHANGED <<spc, sOutcome>>
       ELSE /\ sOutcome' = SendRaised(<<"Max retries exceeded">>)
            /\ spc' = "done"
            /\ UNCHANGED <<retriesLeft, wire>>
    /\ UNCHANGED sPayload
    /\ UNCHANGED <<clientVars, verifyVars, gateVars, concVars, cmdVars>>

SendNext ==
    \/ \E p \in SendPayloads : SendStart(p)
    \/ \E resp \in SendResponses : SendResponds(resp)
    \/ SendConnectionError


-----------------------------------------------------------------------------
(* PaymentService.verify_payment *)

SampleAuthorization(n) ==
    CreateAuthorizationObject("0xRecipient", "10000", GraceWindow, n)

SampleSignature(n) ==
    [kind |-> "hex", by |-> PayerAddress, domain |-> CreateEip712Domain(DefaultAsset),
     message |-> SampleAuthorization(n)]

\* a JSON value that is not an object (a string, a list): it has no .get
NotAnObject == [pytype |-> "str"]

\* decoded X-PAYMENT values handed to verify_payment
PaymentDatas ==
    { CreatePaymentPayloadStructure("exact", "base-sepolia", SampleSignature(n),
                                    SampleAuthorization(n), res)
      : n \in Nonces, res \in {None, "/protected"} }
    \cup
    { [x402Version |-> 2, scheme |-> "exact", network |-> "base-sepolia",
       payload |-> [signature |-> SampleSignature(1),
                    authorization |-> SampleAuthorization(1)]],
      \* another authorization under the nonce of SampleAuthorization(1)
      CreatePaymentPayloadStructure("exact", "base-sepolia", SampleSignature(1),
          CreateAuthorizationObject("0xRecipient", "100000", GraceWindow, 1), None),
      [x402Version |-> 1, scheme |-> "exact", network |-> "base-sepolia",
       payload |-> [authorization |-> SampleAuthorization(1)]],
      [x402Version |-> 1, scheme |-> "exact", network |-> "base-sepolia",
       payload |-> [signature |-> SampleSignature(1),
                    authorization |-> [from |-> PayerAddress, value |-> "10000"]]],
      [x402Version |-> 1, scheme |-> "exact", network |-> "base-sepolia",
       payload |-> NotAnObject],
      [scheme |-> "exact"] }

VerifyArgs ==
    { [resource_path |-> "/protected", receiving_address |-> "0xRecipient"],
      [resource_path |-> "/premium", receiving_address |-> "0xOther"] }

\* what the POST to {facilitator_url}/verify may produce
FacilitatorReplies ==
    { [kind |-> "response", status |-> 200, body |-> JsonBody([isValid |-> TRUE])],
      [kind |-> "response", status |-> 200,
       body |-> JsonBody([isValid |-> FALSE, reason |-> "signature mismatch"])],
      [kind |-> "response", status |-> 200, body |-> JsonBody([reason |-> "no verdict"])],
      [kind |-> "response", status |-> 200, body |-> ListBody],
      [kind |-> "response", status |-> 200, body |-> TextBody("<html>")],
      [kind |-> "response", status |-> 500, body |-> JsonBody([isValid |-> TRUE])],
      [kind |-> "response", status |-> 503, body |-> TextBody("Service Unavailable")],
      [kind |-> "timeout"],
      [kind |-> "connect_error"] }

\* payment_data.get("payload", {}).get(...) raises AttributeError when the
\* payload member is not an object
PayloadIsObject(data) ==
    "payload" \notin DOMAIN data \/ "pytype" \notin DOMAIN data.payload

EmptyDict == [k \in {} |-> None]

\* variant: the recipient is taken from the receiving_address argument
CreateFacilitatorPayloadToReceiver(data, resource_path, receiving_address) ==
    LET pl == Get(data, "payload", EmptyDict)
        au == Get(pl, "authorization", EmptyDict)
    IN  [x402Version |-> Get(data, "x402Version", None),
         scheme |-> Get(data, "scheme", None),
         network |-> Get(data, "network", None),
         payload |->
           [signature |-> Get(pl, "signature", None),
            authorization |->
              [from |-> Get(au, "from", None),
               to |-> receiving_address,
               value |-> Get(au, "value", None),
               validAfter |-> Get(au, "validAfter", None),
               validBefore |-> Get(au, "validBefore", None),
               nonce |-> Get(au, "nonce", None)]]]

\* variant: the body names the resource the payment was presented for
CreateFacilitatorPayloadWithResource(data, resource_path, receiving_address) ==
    LET pl == Get(data, "payload", EmptyDict)
        au == Get(pl, "authorization", EmptyDict)
    IN  [x402Version |-> Get(data, "x402Version", None),
         scheme |-> Get(data, "scheme", None),
         network |-> Get(data, "network", None),
         resource |-> resource_path,
         payload |->
           [signature |-> Get(pl, "signature", None),
            authorization |->
              [from |-> Get(au, "from", None),
               to |-> Get(au, "to", None),
               value |-> Get(au, "value", None),
               validAfter |-> Get(au, "validAfter", None),
               validBefore |-> Get(au, "validBefore", None),
               nonce |-> Get(au, "nonce", None)]]]

\* _create_facilitator_payload(payment_data, resource_path, receiving_address)
CreateFacilitatorPayload(data, resource_path, receiving_address) ==
    LET pl == Get(data, "payload", EmptyDict)
        au == Get(pl, "authorization", EmptyDict)
    IN  [x402Version |-> Get(data, "x402Version", None),
         scheme |-> Get(data, "scheme", None),
         network |-> Get(data, "network", None),
         payload |->
           [signature |-> Get(pl, "signature", None),
            authorization |->
              [from |-> Get(au, "from", None),
               to |-> Get(au, "to", None),
               value |-> Get(au, "value", None),
               validAfter |-> Get(au, "validAfter", None),
               validBefore |-> Get(au, "validBefore", None),
               nonce |-> Get(au, "nonce", None)]]]

\* the payment data has payload.signature and payload.authorization with
\* all six authorization fields
CompletePayload(data) ==
    /\ "payload" \in DOMAIN data
    /\ "signature" \in DOMAIN data.payload
    /\ "authorization" \in DOMAIN data.payload
    /\ DOMAIN data.payload.authorization = AuthorizationFields

\* variant: the verdict is read without looking at the status code
VerifyOutcomeAnyStatus(reply) ==
    IF reply.kind # "response" THEN FALSE
    ELSE IF reply.body.kind # "dict" THEN FALSE
    ELSE Get(reply.body.json, "isValid", FALSE)

\* the value verify_payment returns for what the facilitator call produced
VerifyOutcome(reply) ==
    IF reply.kind # "response"
    THEN FALSE                                  \* except Exception: return False
    ELSE IF reply.status = 200
    THEN IF reply.body.kind = "text" THEN FALSE \* json.JSONDecodeError
         ELSE IF reply.body.kind # "dict" THEN FALSE \* AttributeError, outer except
         ELSE Get(reply.body.json, "isValid", FALSE)
    ELSE FALSE

\* whether an exception leaves verify_payment
VerifyRaises(reply) == FALSE

VerifyInit ==
    /\ vpc = "idle"
    /\ vData = NoValue
    /\ vArgs = NoValue
    /\ posted = <<>>
    /\ vReply = NoValue
    /\ vResult = NoValue
    /\ served = 0
    /\ verified = {}

\* verify_payment is called and runs to its await, client.post
VerifyStart(data, args) ==
    /\ vpc \in {"idle", "done"}
    /\ served < MaxServed
    /\ vData' = data
    /\ vArgs' = args
    /\ vReply' = NoValue
    /\ IF PayloadIsObject(data)
       THEN /\ posted' = <<CreateFacilitatorPayload(data, args.resource_path,
                                                     args.receiving_address)>>
            /\ vResult' = NoValue
            /\ vpc' = "posted"
            /\ UNCHANGED served
       ELSE \* AttributeError in _create_facilitator_payload, caught
            /\ posted' = <<>>
            /\ vResult' = [raised |-> FALSE, value |-> FALSE]
            /\ vpc' = "done"
            /\ served' = served + 1
    /\ UNCHANGED verified
    /\ UNCHANGED <<clientVars, sendVars, gateVars, concVars, cmdVars>>

\* the facilitator call completes: a response, a timeout or a transport error
FacilitatorCompletes(reply) ==
    /\ vpc = "posted"
    /\ vReply' = reply
    /\ vResult' = [raised |-> VerifyRaises(reply), value |-> VerifyOutcome(reply)]
    /\ vpc' = "done"
    /\ served' = served + 1
    /\ verified' = IF VerifyOutcome(reply) = TRUE /\ CompletePayload(vData)
                   THEN verified \cup {vData.payload.authorization}
                   ELSE verified
    /\ UNCHANGED <<vData, vArgs, posted>>
    /\ UNCHANGED <<clientVars, sendVars, gateVars, concVars, cmdVars>>

VerifyNext ==
    \/ \E d \in PaymentDatas, a \in VerifyArgs : VerifyStart(d, a)
    \/ \E r \in FacilitatorReplies : FacilitatorCompletes(r)

-----------------------------------------------------------------------------
(* The server: priced routes, their handlers and the payment gate *)

\* wallet_config.get_receiving_address(): defaultAddress of the wallet file
ReceivingAddress == "0xServerWallet"

\* variant: the tiers are registered with one shared price
RegistrationsSharedPrice ==
    << [path |-> "/protected", amount |-> "10000", asset |-> DefaultAsset,
        pay_to_address |-> ReceivingAddress, network_id |-> "base-sepolia"],
       [path |-> "/premium", amount |-> "10000", asset |-> DefaultAsset,
        pay_to_address |-> ReceivingAddress, network_id |-> "base-sepolia"],
       [path |-> "/enterprise", amount |-> "10000", asset |-> DefaultAsset,
        pay_to_address |-> ReceivingAddress, network_id |-> "base-sepolia"] >>

\* the require_payment registrations, in the order app.py makes them
Registrations ==
    << [path |-> "/protected", amount |-> "10000", asset |-> DefaultAsset,
        pay_to_address |-> ReceivingAddress, network_id |-> "base-sepolia"],
       [path |-> "/premium", amount |-> "100000", asset |-> DefaultAsset,
        pay_to_address |-> ReceivingAddress, network_id |-> "base-sepolia"],
       [path |-> "/enterprise", amount |-> "1000000", asset |-> DefaultAsset,
        pay_to_address |-> ReceivingAddress, network_id |-> "base-sepolia"] >>

\* the routes of content_router
RoutePaths == {"/protected", "/premium", "/enterprise", "/free"}

PricedPaths == {Registrations[i].path : i \in 1..Len(Registrations)}

\* request.headers.get('x-payment') of a request without the header
NoHeader == [absent |-> TRUE]

\* client_address.startswith('0x'), on the addresses that occur
StartsWith0x(a) == a \in {PayerAddress, ReceivingAddress, "0xRecipient"}

\* variant: the recipient of the authorization is reported
GetClientFromPaymentRecipient(h) ==
    IF h = NoHeader THEN "unknown"
    ELSE LET d == DecodePaymentHeader(h)
         IN  IF ~d.ok THEN "unknown"
             ELSE LET authz == Get(Get(d.data, "payload", << >>), "authorization", << >>)
                  IN  IF "to" \in DOMAIN authz /\ Truthy(authz.to)
                         /\ StartsWith0x(authz.to)
                      THEN authz.to
                      ELSE "unknown"

\* variant: the field is returned without the test for the 0x prefix
GetClientFromPaymentAnyString(h) ==
    IF h = NoHeader THEN "unknown"
    ELSE LET d == DecodePaymentHeader(h)
         IN  IF ~d.ok THEN "unknown"
             ELSE LET authz == Get(Get(d.data, "payload", << >>), "authorization", << >>)
                  IN  IF "from" \in DOMAIN authz /\ Truthy(authz.from)
                      THEN authz.from
                      ELSE "unknown"

\* get_client_from_payment(request)
GetClientFromPayment(h) ==
    IF h = NoHeader THEN "unknown"
    ELSE LET d == DecodePaymentHeader(h)
         IN  IF ~d.ok THEN "unknown"
             ELSE LET authz == Get(Get(d.data, "payload", << >>), "authorization", << >>)
                  IN  IF "from" \in DOMAIN authz /\ Truthy(authz.from)
                         /\ StartsWith0x(authz.from)
                      THEN authz.from
                      ELSE "unknown"

\* what the route's handler returns: the priced handlers report paidBy
HandlerResponse(path, h) ==
    IF path = "/free"
    THEN [status |-> 200, path |-> path]
    ELSE [status |-> 200, path |-> path, paidBy |-> GetClientFromPayment(h)]

\* X-PAYMENT header values a request may carry
GateHeaders ==
    { NoHeader,
      EncodePaymentPayload(CreatePaymentPayloadStructure("exact", "base-sepolia",
                               SampleSignature(1), SampleAuthorization(1), None)),
      [b64 |-> << <<<<"x402Version">>, 2>>,
                  <<<<"scheme">>, "exact">>,
                  <<<<"network">>, "base-sepolia">>,
                  <<<<"payload", "signature">>, SampleSignature(1)>>,
                  <<<<"payload", "authorization", "from">>, PayerAddress>>,
                  <<<<"payload", "authorization", "to">>, ReceivingAddress>>,
                  <<<<"payload", "authorization", "value">>, "10000">>,
                  <<<<"payload", "authorization", "validAfter">>, "0">>,
                  <<<<"payload", "authorization", "validBefore">>, Str(GraceWindow)>>,
                  <<<<"payload", "authorization", "nonce">>, 1>> >>],
      [b64 |-> << <<<<"x402Version">>, 1>>,
                  <<<<"scheme">>, "exact">>,
                  <<<<"network">>, "base-sepolia">>,
                  <<<<"payload", "authorization", "from">>, PayerAddress>> >>],
      \* a payer field that is not a 0x string
      [b64 |-> << <<<<"x402Version">>, 1>>,
                  <<<<"payload", "authorization", "from">>, "payer.eth">> >>],
      \* a JSON object without payload
      [b64 |-> << <<<<"x402Version">>, 1>> >>],
      [b64text |-> "not json"],
      [raw |-> "%%%"] }

\* variant: decoding stops after the JSON parse, without the schema check
CodecDecodeNoSchema(h) ==
    IF "raw" \in DOMAIN h THEN [ok |-> FALSE, error |-> "Base64Error"]
    ELSE IF "b64text" \in DOMAIN h THEN [ok |-> FALSE, error |-> "JsonError"]
    ELSE [ok |-> TRUE, data |-> JsonLoads(h.b64)]

\* PayloadCodec.decode: the payload, or DecodeError with its sub-reason
CodecDecode(h) ==
    IF "raw" \in DOMAIN h THEN [ok |-> FALSE, error |-> "Base64Error"]
    ELSE IF "b64text" \in DOMAIN h THEN [ok |-> FALSE, error |-> "JsonError"]
    ELSE LET d == JsonLoads(h.b64)
         IN  IF "x402Version" \in DOMAIN d /\ d.x402Version # SupportedVersion
             THEN [ok |-> FALSE, error |-> "VersionError"]
             ELSE IF /\ "x402Version" \in DOMAIN d
                     /\ "payload" \in DOMAIN d
                     /\ "signature" \in DOMAIN d.payload
                     /\ "authorization" \in DOMAIN d.payload
                     /\ AuthorizationFields \subseteq DOMAIN d.payload.authorization
             THEN [ok |-> TRUE, data |-> d]
             ELSE [ok |-> FALSE, error |-> "SchemaError"]

\* the facilitator's verdict is isValid: true
ValidVerdictReply(reply) ==
    /\ reply.kind = "response" /\ reply.status = 200
    /\ reply.body.kind = "dict"
    /\ Get(reply.body.json, "isValid", FALSE) = TRUE

\* the registration whose middleware intercepts the path
RegistrationFor(path) ==
    Registrations[CHOOSE i \in 1..Len(Registrations) : Registrations[i].path = path]

\* the PaymentRequirement of a registration
RequirementOf(reg) ==
    [scheme |-> "exact", network |-> reg.network_id,
     maxAmountRequired |-> reg.amount, payTo |-> reg.pay_to_address,
     asset |-> reg.asset]

\* variant: the challenge offers every registered tier
ChallengeAllTiers(reg) ==
    [status |-> 402,
     body |-> [x402Version |-> 1,
               accepts |-> [i \in 1..Len(Registrations) |-> RequirementOf(Registrations[i])]]]

\* Reject(402, challenge) for a request without a payment header
Challenge(reg) ==
    [status |-> 402,
     body |-> [x402Version |-> 1, accepts |-> <<RequirementOf(reg)>>]]

\* Reject(402) with the error detail
Reject(reg, detail) ==
    [status |-> 402,
     body |-> [x402Version |-> 1, accepts |-> <<RequirementOf(reg)>>,
               error |-> detail]]

\* the detail of a verification that did not come out true
VerificationDetail(reply) ==
    IF reply.kind = "response" /\ reply.status = 200 /\ reply.body.kind = "dict"
    THEN Get(reply.body.json, "reason", "InvalidAuthorization")
    ELSE "FacilitatorUnavailable"

FreeSlot == [stage |-> "free"]

Slots == 1..MaxInflight

GateInit == inflight = [s \in Slots |-> FreeSlot]

\* a request reaches the server
Arrive(s, path, h) ==
    /\ inflight[s].stage = "free"
    /\ inflight' = [inflight EXCEPT ![s] =
                       [stage |-> "arrived", path |-> path, header |-> h,
                        ran |-> FALSE, verdict |-> NoValue, response |-> NoValue]]
    /\ UNCHANGED <<clientVars, sendVars, verifyVars, concVars, cmdVars>>

\* variant: the gate remembers the challenges it issued: while one is
\* outstanding for a path, a further request to it is turned away
GateDecideThrottled(s) ==
    LET r == inflight[s]
        pending == \E t \in Slots \ {s} :
                       /\ inflight[t].stage = "answered"
                       /\ inflight[t].path = r.path
                       /\ inflight[t].response.status = 402
    IN  /\ r.stage = "arrived"
        /\ inflight' = [inflight EXCEPT ![s] =
              IF r.path \notin PricedPaths
              THEN [r EXCEPT !.stage = "answered", !.ran = TRUE,
                             !.response = HandlerResponse(r.path, r.header)]
              ELSE IF pending
              THEN [r EXCEPT !.stage = "answered",
                             !.response = Reject(RegistrationFor(r.path), "ChallengePending")]
              ELSE IF r.header = NoHeader
              THEN [r EXCEPT !.stage = "answered",
                             !.response = Challenge(RegistrationFor(r.path))]
              ELSE IF ~CodecDecode(r.header).ok
              THEN [r EXCEPT !.stage = "answered",
                             !.response = Reject(RegistrationFor(r.path),
                                                 CodecDecode(r.header).error)]
              ELSE [r EXCEPT !.stage = "verifying"]]
        /\ UNCHANGED <<clientVars, sendVars, verifyVars, concVars, cmdVars>>

\* the request passes the middlewares up to the facilitator call or the answer
GateDecide(s) ==
    LET r == inflight[s]
        forward == [r EXCEPT !.stage = "answered", !.ran = TRUE,
                             !.response = HandlerResponse(r.path, r.header)]
    IN  /\ r.stage = "arrived"
        /\ inflight' = [inflight EXCEPT ![s] =
              IF r.path \notin PricedPaths THEN forward
              ELSE LET reg == RegistrationFor(r.path)
                   IN  IF r.header = NoHeader
                       THEN [r EXCEPT !.stage = "answered", !.response = Challenge(reg)]
                       ELSE IF ~CodecDecode(r.header).ok
                       THEN [r EXCEPT !.stage = "answered",
                                      !.response = Reject(reg, CodecDecode(r.header).error)]
                       ELSE [r EXCEPT !.stage = "verifying"]]
        /\ UNCHANGED <<clientVars, sendVars, verifyVars, concVars, cmdVars>>

\* the facilitator call of a request completes
FacilitatorVerdict(s, reply) ==
    LET r == inflight[s]
    IN  /\ r.stage = "verifying"
        /\ inflight' = [inflight EXCEPT ![s] =
              IF ValidVerdictReply(reply)
              THEN [r EXCEPT !.stage = "answered", !.ran = TRUE, !.verdict = reply,
                             !.response = HandlerResponse(r.path, r.header)]
              ELSE [r EXCEPT !.stage = "answered", !.verdict = reply,
                             !.response = Reject(RegistrationFor(r.path),
                                                 VerificationDetail(reply))]]
        /\ UNCHANGED <<clientVars, sendVars, verifyVars, concVars, cmdVars>>

\* the response has been written; the slot serves the next request
Release(s) ==
    /\ inflight[s].stage = "answered"
    /\ inflight' = [inflight EXCEPT ![s] = FreeSlot]
    /\ UNCHANGED <<clientVars, sendVars, verifyVars, concVars, cmdVars>>

GateNext ==
    \/ \E s \in Slots, p \in RoutePaths, h \in GateHeaders : Arrive(s, p, h)
    \/ \E s \in Slots : GateDecide(s)
    \/ \E s \in Slots, reply \in FacilitatorReplies : FacilitatorVerdict(s, reply)
    \/ \E s \in Slots : Release(s)

-----------------------------------------------------------------------------
(* make_payment_request calls running together on one client object *)

Callers == {"a", "b"}

ConcInit == calls = [c \in Callers |-> [pc |-> "idle"]]

\* what the server may answer to the probes and paid requests of these calls
ConcProbeResponses ==
    { [status |-> 200, body |-> JsonBody([tier |-> "free"])],
      [status |-> 402, body |-> JsonBody([x402Version |-> 1, accepts |-> <<ReqProtected>>])],
      [status |-> 402, body |-> JsonBody([x402Version |-> 1, accepts |-> <<ReqSnake>>])] }

ConcPaymentResponses ==
    { [status |-> 200, body |-> JsonBody([paymentVerified |-> TRUE])],
      [status |-> 402, body |-> JsonBody([x402Version |-> 1, error |-> "signature mismatch"])] }

ConcAmounts == {None, "5000"}

OtherCaller(c) == CHOOSE d \in Callers : d # c

\* a caller invokes make_payment_request; the task runs up to session.get
CStart(c, u, amt) ==
    /\ calls[c].pc = "idle"
    /\ calls' = [calls EXCEPT ![c] =
          [pc |-> "probing", url |-> u, amount |-> amt, probe |-> NoValue,
           reqs |-> NoValue, cost |-> None, auth |-> NoValue, builtAt |-> NoValue,
           signed |-> NoValue, signature |-> NoValue, sent |-> <<[url |-> u]>>,
           paid |-> NoValue, result |-> NoValue]]
    /\ UNCHANGED <<clientVars, sendVars, verifyVars, gateVars, cmdVars>>

\* the probe of call c is answered; the task runs on to the signer call or returns
CProbeResponds(c, resp, nonce) ==
    LET k  == calls[c]
        pr == PaymentRequirements(resp.body, k.amount, config)
        dc == DiscoveredCost(pr, k.amount)
        a  == PayloadArgs(pr, dc, config)
        au == CreateAuthorizationObject(a.recipient, a.amount, now + GraceWindow, nonce)
    IN  /\ k.pc = "probing"
        /\ calls' = [calls EXCEPT ![c] =
              IF ~NeedsPayment(resp.status)
              THEN [k EXCEPT !.probe = resp, !.pc = "done",
                             !.result = OtherStatusResult(resp.status, resp.body)]
              ELSE IF resp.body.kind = "text"
              THEN [k EXCEPT !.probe = resp, !.pc = "done",
                             !.result = ExceptionResult(<<"ContentTypeError">>)]
              ELSE IF ~RequiredPresent(a)
              THEN [k EXCEPT !.probe = resp, !.reqs = pr, !.cost = dc, !.pc = "done",
                             !.result = ExceptionResult(
                                 <<"Payment payload creation failed",
                                   "Missing required parameters for payment payload">>)]
              ELSE [k EXCEPT !.probe = resp, !.reqs = pr, !.cost = dc, !.auth = au,
                             !.builtAt = [at |-> now, nonce |-> nonce],
                             !.signed = [domain |-> CreateEip712Domain(AssetOrDefault(a.asset)),
                                         primary_type |-> "TransferWithAuthorization",
                                         message |-> au],
                             !.pc = "signing"]]
        /\ UNCHANGED <<clientVars, sendVars, verifyVars, gateVars, cmdVars>>

\* session.get of call c raises
CProbeFails(c) ==
    /\ calls[c].pc = "probing"
    /\ calls' = [calls EXCEPT ![c].pc = "done",
                              ![c].result = ExceptionResult(<<"ClientConnectorError">>)]
    /\ UNCHANGED <<clientVars, sendVars, verifyVars, gateVars, cmdVars>>

\* variant: the authorization is kept on the client object, so the payload is
\* structured from the one built last by any call
CSignerReturnsSharedAuthorization(c, kind) ==
    LET k   == calls[c]
        o   == calls[OtherCaller(c)]
        au  == IF "auth" \in DOMAIN o /\ o.auth # NoValue THEN o.auth ELSE k.auth
        a   == PayloadArgs(k.reqs, k.cost, config)
        sig == [kind |-> kind, by |-> PayerAddress,
                domain |-> CreateEip712Domain(AssetOrDefault(a.asset)),
                message |-> k.auth]
        payload == CreatePaymentPayloadStructure(a.scheme, a.network, sig, au, a.resource)
    IN  /\ k.pc = "signing"
        /\ calls' = [calls EXCEPT ![c] =
              IF Serializable(payload)
              THEN [k EXCEPT !.signature = sig, !.pc = "retrying",
                             !.sent = Append(k.sent,
                                 [url |-> k.url, xpayment |-> EncodePaymentPayload(payload)])]
              ELSE [k EXCEPT !.signature = sig, !.pc = "done",
                             !.result = ExceptionResult(
                                 <<"Payment payload creation failed",
                                   "Failed to encode payment payload">>)]]
        /\ UNCHANGED <<clientVars, sendVars, verifyVars, gateVars, cmdVars>>

\* sign_typed_data returns to call c; the payload is structured, encoded and sent
CSignerReturns(c, kind) ==
    LET k   == calls[c]
        a   == PayloadArgs(k.reqs, k.cost, config)
        sig == [kind |-> kind, by |-> PayerAddress,
                domain |-> CreateEip712Domain(AssetOrDefault(a.asset)),
                message |-> k.auth]
        payload == CreatePaymentPayloadStructure(a.scheme, a.network, sig, k.auth, a.resource)
    IN  /\ k.pc = "signing"
        /\ calls' = [calls EXCEPT ![c] =
              IF Serializable(payload)
              THEN [k EXCEPT !.signature = sig, !.pc = "retrying",
                             !.sent = Append(k.sent,
                                 [url |-> k.url, xpayment |-> EncodePaymentPayload(payload)])]
              ELSE [k EXCEPT !.signature = sig, !.pc = "done",
                             !.result = ExceptionResult(
                                 <<"Payment payload creation failed",
                                   "Failed to encode payment payload">>)]]
        /\ UNCHANGED <<clientVars, sendVars, verifyVars, gateVars, cmdVars>>

\* sign_typed_data raises in call c
CSignerRaises(c) ==
    /\ calls[c].pc = "signing"
    /\ calls' = [calls EXCEPT ![c].pc = "done",
                              ![c].result = ExceptionResult(
                                  <<"Payment payload creation failed",
                                    "Failed to sign payment data">>)]
    /\ UNCHANGED <<clientVars, sendVars, verifyVars, gateVars, cmdVars>>

\* the paid request of call c is answered
CPaymentResponds(c, resp) ==
    /\ calls[c].pc = "retrying"
    /\ calls' = [calls EXCEPT ![c].pc = "done", ![c].paid = resp,
                              ![c].result = PaidResult(resp.status, resp.body, calls[c].cost)]
    /\ UNCHANGED <<clientVars, sendVars, verifyVars, gateVars, cmdVars>>

\* the paid session.get of call c raises
CPaymentFails(c) ==
    /\ calls[c].pc = "retrying"
    /\ calls' = [calls EXCEPT ![c].pc = "done",
                              ![c].result = ExceptionResult(<<"ClientConnectorError">>)]
    /\ UNCHANGED <<clientVars, sendVars, verifyVars, gateVars, cmdVars>>

ConcNext ==
    \/ \E c \in Callers, u \in Urls, amt \in ConcAmounts : CStart(c, u, amt)
    \/ \E c \in Callers, resp \in ConcProbeResponses, n \in Nonces : CProbeResponds(c, resp, n)
    \/ \E c \in Callers : CProbeFails(c)
    \/ \E c \in Callers, kind \in SignatureKinds : CSignerReturns(c, kind)
    \/ \E c \in Callers : CSignerRaises(c)
    \/ \E c \in Callers, resp \in ConcPaymentResponses : CPaymentResponds(c, resp)
    \/ \E c \in Callers : CPaymentFails(c)
    \/ Tick

-----------------------------------------------------------------------------
(* The tier commands: balance check, then the payment request *)

Tiers == {"tier2", "tier3"}

\* X402_ENDPOINTS[tier].endpoint behind http://localhost:5001
TierUrl(t) ==
    IF t = "tier2" THEN "http://localhost:5001/premium"
    ELSE "http://localhost:5001/enterprise"

\* the amount argument the command gives make_payment_request
TierAmount(t) == IF t = "tier2" THEN "100000" ELSE "1000000"

\* token amounts, in atomic units, the balance listing may report for USDC
BalanceAmounts == {-1, 0, 1, 250000}

\* what the wallet manager meets when asked for the balance: no account
\* loaded, the CDP call raising, no USDC among the balances, or a USDC amount
BalanceLookups ==
    { [kind |-> "no_account"], [kind |-> "cdp_error"], [kind |-> "no_usdc"] }
    \cup { [kind |-> "usdc", amount |-> n] : n \in BalanceAmounts }

\* WalletManager.get_usdc_balance: raises ValueError without an account,
\* returns 0.0 on any other exception and when no USDC is listed, else
\* amount / 10 ** decimals, which has the sign of amount (kept in atomic units)
GetUsdcBalance(l) ==
    IF l.kind = "no_account" THEN [raised |-> TRUE, value |-> 0]
    ELSE IF l.kind = "usdc" THEN [raised |-> FALSE, value |-> l.amount]
    ELSE [raised |-> FALSE, value |-> 0]

NoBalance == [kind |-> "none"]

\* variant: a zero balance is passed on as a balance
ValidateBalanceForX402AllowsZero(b) ==
    IF b.raised THEN NoBalance
    ELSE IF b.value < 0 THEN NoBalance
    ELSE [kind |-> "value", v |-> b.value]

\* validate_balance_for_x402 on what get_usdc_balance produced: None on an
\* exception, on a negative balance and on a zero balance, else the balance
ValidateBalanceForX402(b) ==
    IF b.raised THEN NoBalance
    ELSE IF b.value < 0 THEN NoBalance
    ELSE IF b.value = 0 THEN NoBalance
    ELSE [kind |-> "value", v |-> b.value]

IdleCommand ==
    [pc |-> "idle", no |-> 0, tier |-> None, lookup |-> [kind |-> "pending"],
     balance |-> NoBalance, client |-> FALSE, requests |-> <<>>,
     reqs |-> NoValue, cost |-> None, auth |-> NoValue, result |-> NoValue]

CommandInit == cmd = IdleCommand

\* the user runs a tier command; it runs up to wallet_manager.get_usdc_balance()
CmdStart(t) ==
    /\ cmd.pc \in {"idle", "ended"}
    /\ cmd.no < MaxCommands
    /\ cmd' = [IdleCommand EXCEPT !.pc = "balance", !.no = cmd.no + 1, !.tier = t]
    /\ UNCHANGED <<clientVars, sendVars, verifyVars, gateVars, concVars>>

\* get_usdc_balance completes; validate_balance_for_x402 returns; on None the
\* command returns, otherwise it runs on to cdp.evm.get_account
BalanceReturns(l) ==
    /\ cmd.pc = "balance"
    /\ LET bal == ValidateBalanceForX402(GetUsdcBalance(l))
       IN  cmd' = [cmd EXCEPT !.lookup = l, !.balance = bal,
                              !.pc = IF bal = NoBalance THEN "ended" ELSE "account"]
    /\ UNCHANGED <<clientVars, sendVars, verifyVars, gateVars, concVars>>

\* get_account returns: CDPSigner and CustomX402Client are created and
\* make_payment_request puts the probe on the wire
AccountReturns ==
    /\ cmd.pc = "account"
    /\ cmd' = [cmd EXCEPT !.client = TRUE, !.pc = "probing",
                          !.requests = <<[url |-> TierUrl(cmd.tier)]>>]
    /\ UNCHANGED <<clientVars, sendVars, verifyVars, gateVars, concVars>>

\* CdpClient or get_account raises: handle_x402_error
AccountRaises ==
    /\ cmd.pc = "account"
    /\ cmd' = [cmd EXCEPT !.pc = "ended"]
    /\ UNCHANGED <<clientVars, sendVars, verifyVars, gateVars, concVars>>

\* the command's probe is answered
CmdProbeResponds(resp, nonce) ==
    LET amt == TierAmount(cmd.tier)
        pr == PaymentRequirements(resp.body, amt, config)
        dc == DiscoveredCost(pr, amt)
        a  == PayloadArgs(pr, dc, config)
        au == CreateAuthorizationObject(a.recipient, a.amount, now + GraceWindow, nonce)
    IN  /\ cmd.pc = "probing"
        /\ cmd' =
              IF ~NeedsPayment(resp.status)
              THEN [cmd EXCEPT !.pc = "ended",
                               !.result = OtherStatusResult(resp.status, resp.body)]
              ELSE IF resp.body.kind = "text"
              THEN [cmd EXCEPT !.pc = "ended",
                               !.result = ExceptionResult(<<"ContentTypeError">>)]
              ELSE IF ~RequiredPresent(a)
              THEN [cmd EXCEPT !.reqs = pr, !.cost = dc, !.pc = "ended",
                               !.result = ExceptionResult(
                                   <<"Payment payload creation failed",
                                     "Missing required parameters for payment payload">>)]
              ELSE [cmd EXCEPT !.reqs = pr, !.cost = dc, !.auth = au, !.pc = "signing"]
        /\ UNCHANGED <<clientVars, sendVars, verifyVars, gateVars, concVars>>

\* the command's probe raises
CmdProbeFails ==
    /\ cmd.pc = "probing"
    /\ cmd' = [cmd EXCEPT !.pc = "ended",
                          !.result = ExceptionResult(<<"ClientConnectorError">>)]
    /\ UNCHANGED <<clientVars, sendVars, verifyVars, gateVars, concVars>>

\* the CDP account signs; the paid request goes out
CmdSignerReturns(kind) ==
    LET a   == PayloadArgs(cmd.reqs, cmd.cost, config)
        sig == [kind |-> kind, by |-> PayerAddress,
                domain |-> CreateEip712Domain(AssetOrDefault(a.asset)),
                message |-> cmd.auth]
        payload == CreatePaymentPayloadStructure(a.scheme, a.network, sig,
                                                 cmd.auth, a.resource)
    IN  /\ cmd.pc = "signing"
        /\ cmd' =
              IF Serializable(payload)
              THEN [cmd EXCEPT !.pc = "retrying",
                               !.requests = Append(cmd.requests,
                                   [url |-> TierUrl(cmd.tier),
                                    xpayment |-> EncodePaymentPayload(payload)])]
              ELSE [cmd EXCEPT !.pc = "ended",
                               !.result = ExceptionResult(
                                   <<"Payment payload creation failed",
                                     "Failed to encode payment payload">>)]
        /\ UNCHANGED <<clientVars, sendVars, verifyVars, gateVars, concVars>>

\* the CDP account's sign_typed_data raises
CmdSignerRaises ==
    /\ cmd.pc = "signing"
    /\ cmd' = [cmd EXCEPT !.pc = "ended",
                          !.result = ExceptionResult(
                              <<"Payment payload creation failed",
                                "Failed to sign payment data">>)]
    /\ UNCHANGED <<clientVars, sendVars, verifyVars, gateVars, concVars>>

\* the command's paid request is answered
CmdPaymentResponds(resp) ==
    /\ cmd.pc = "retrying"
    /\ cmd' = [cmd EXCEPT !.pc = "ended",
                          !.result = PaidResult(resp.status, resp.body, cmd.cost)]
    /\ UNCHANGED <<clientVars, sendVars, verifyVars, gateVars, concVars>>

\* the command's paid request raises
CmdPaymentFails ==
    /\ cmd.pc = "retrying"
    /\ cmd' = [cmd EXCEPT !.pc = "ended",
                          !.result = ExceptionResult(<<"ClientConnectorError">>)]
    /\ UNCHANGED <<clientVars, sendVars, verifyVars, gateVars, concVars>>

CommandNext ==
    \/ \E t \in Tiers : CmdStart(t)
    \/ \E l \in BalanceLookups : BalanceReturns(l)
    \/ AccountReturns
    \/ AccountRaises
    \/ \E resp \in ConcProbeResponses, n \in Nonces : CmdProbeResponds(resp, n)
    \/ CmdProbeFails
    \/ \E kind \in SignatureKinds : CmdSignerReturns(kind)
    \/ CmdSignerRaises
    \/ \E resp \in ConcPaymentResponses : CmdPaymentResponds(resp)
    \/ CmdPaymentFails

-----------------------------------------------------------------------------
(* Specifications *)

Init == ClientInit /\ SendInit /\ VerifyInit /\ GateInit /\ ConcInit /\ CommandInit

Next == ClientNext

Spec == Init /\ [][Next]_vars

SendSpec == Init /\ [][SendNext]_vars

VerifySpec == Init /\ [][VerifyNext]_vars

GateSpec == Init /\ [][GateNext]_vars

ConcSpec == Init /\ [][ConcNext]_vars

CommandSpec == Init /\ [][CommandNext]_vars


-----------------------------------------------------------------------------
(* Properties of make_payment_request, checked under Spec *)

ProbeAnswered == "status" \in DOMAIN probe

PaidRequests == {i \in 1..Len(sent) : HasPayment(sent[i])}

CallFailed == pc \in {"done", "idle"} /\ "success" \in DOMAIN result /\ result.success = FALSE

\* a 402 body that is not JSON with an integer x402Version and a non-empty accepts
MalformedChallenge(body) ==
    \/ body.kind # "dict"
    \/ "x402Version" \notin DOMAIN body.json
    \/ "accepts" \notin DOMAIN body.json
    \/ body.json.accepts = <<>>

\* C1: a call sends at most two requests: the first is the bare probe, the
\* second carries X-PAYMENT and exists only after the probe answered 402;
\* no third request is sent and at most one authorization is built per call.
C1_AtMostTwoRequests ==
    /\ Len(sent) <= 2
    /\ Len(built) <= 1
    /\ Len(sent) >= 1 => ~HasPayment(sent[1])
    /\ Len(sent) = 2 => /\ HasPayment(sent[2])
                        /\ ProbeAnswered /\ probe.status = 402
    /\ pc = "retrying" => Len(sent) = 2

C1_Witness ==
    /\ pc = "done"
    /\ Len(sent) = 2
    /\ result.success = FALSE
    /\ "details" \in DOMAIN result

\* C3: after a 402 probe with a malformed challenge the signer is not invoked,
\* no request with a payment header is sent and the call ends in failure.
C3_MalformedChallengeFails ==
    (ProbeAnswered /\ probe.status = 402 /\ MalformedChallenge(probe.body)) =>
        /\ signerLog = <<>>
        /\ PaidRequests = {}
        /\ pc = "done" => result.success = FALSE

\* C4: after a 402 probe whose x402Version is present and not 1 nothing is
\* signed, no second request is sent and the call ends in failure.
C4_UnsupportedVersionFails ==
    (/\ ProbeAnswered /\ probe.status = 402 /\ probe.body.kind = "dict"
     /\ "x402Version" \in DOMAIN probe.body.json
     /\ probe.body.json.x402Version # 1) =>
        /\ signerLog = <<>>
        /\ Len(sent) = 1
        /\ pc = "done" => result.success = FALSE

\* C5: a probe status other than 200 and 402 is reported as an error, not as
\* success, and is not retried.
C5_OtherStatusIsError ==
    (pc = "done" /\ ProbeAnswered /\ probe.status \notin {200, 402}) =>
        /\ result.success = FALSE
        /\ Len(sent) = 1

\* C6: after a 200 probe the call ends in success with the original response,
\* the signer is never invoked and no second request is sent.
C6_FreeProbeSucceeds ==
    (ProbeAnswered /\ probe.status = 200) =>
        /\ pc \in {"done", "idle"}
        /\ result.success = TRUE
        /\ result.raw_response = probe.body
        /\ result.data.status = 200
        /\ signerLog = <<>>
        /\ built = <<>>
        /\ Len(sent) = 1

C6_Witness ==
    /\ pc = "done"
    /\ ProbeAnswered /\ probe.status = 200
    /\ result.success = TRUE

\* C7: once the signer raised, the call has ended in failure and no request
\* carrying a payment header was or is sent for it.
C7_SignerFailureSendsNothing ==
    signerErr => CallFailed /\ PaidRequests = {}

C7_Witness ==
    signerErr /\ pc = "done" /\ Len(signerLog) = 1

\* C9: with no amount override, the value of the authorization built for the
\* selected requirement is that requirement's maxAmountRequired.
C9_ValueIsMaxAmountRequired ==
    (/\ amount = None /\ Len(built) >= 1
     /\ probe.body.kind = "dict" /\ ~MalformedChallenge(probe.body)) =>
        \A i \in 1..Len(built) :
            /\ "maxAmountRequired" \in DOMAIN probe.body.json.accepts[1]
            /\ built[i].value = probe.body.json.accepts[1].maxAmountRequired

C9_Witness ==
    /\ amount = None /\ Len(built) = 1
    /\ probe.body.kind = "dict" /\ ~MalformedChallenge(probe.body)
    /\ built[1].value = "100000"

\* C10: when the caller passes an amount override, the value of the built
\* authorization is that override.
C10_OverrideIsUsed ==
    (amount # None /\ Len(built) >= 1) => built[1].value = amount

-----------------------------------------------------------------------------
(* Property of _send_payment_request, checked under SendSpec *)

\* C8: no X-PAYMENT payload is put on the wire twice.
C8_PayloadNeverResent ==
    \A i, j \in 1..Len(wire) : i # j => wire[i] # wire[j]

-----------------------------------------------------------------------------
(* Property of verify_payment, checked under VerifySpec *)

ValidVerdict(reply) ==
    /\ "kind" \in DOMAIN reply
    /\ reply.kind = "response"
    /\ reply.status = 200
    /\ reply.body.kind = "dict"
    /\ "isValid" \in DOMAIN reply.body.json
    /\ reply.body.json.isValid = TRUE

-----------------------------------------------------------------------------
(* Properties added for the builder and the codec, checked under Spec *)

\* the strings of this model that are non-negative integers in decimal
IsNonNegativeIntegerString(s) == s \in {"0", "5000", "10000", "100000", "1000000"}

\* C11: with an amount override that is not a non-negative integer string the
\* build fails before signing: the signer is not invoked, no paid request is
\* sent and a call that needed payment ends in failure.
C11_InvalidAmountRejectedBeforeSigning ==
    (amount # None /\ ~IsNonNegativeIntegerString(amount)) =>
        /\ signerLog = <<>>
        /\ PaidRequests = {}
        /\ (pc = "done" /\ ProbeAnswered /\ probe.status = 402) => result.success = FALSE

\* C12: every authorization built has validAfter "0" and validBefore equal to
\* the time of its construction plus 60 seconds, whatever the caller passed.
C12_WindowFixed ==
    [][Len(built') > Len(built) =>
          /\ built'[Len(built')].validAfter = "0"
          /\ built'[Len(built')].validBefore = Str(now + 60)]_vars

C12_Witness ==
    /\ Len(built) = 1
    /\ amount = "5000"
    /\ built[1].validAfter = "0"
    /\ built[1].validBefore = Str(61)

PayloadOfCall ==
    LET a == PayloadArgs(reqs, cost, config)
    IN  CreatePaymentPayloadStructure(a.scheme, a.network, signature, auth, a.resource)

-----------------------------------------------------------------------------
(* Properties added for verify_payment, checked under VerifySpec *)

\* C15: a payment payload whose x402Version is not 1 is rejected before any
\* request to the facilitator is made for it.
C15_VersionRejectedBeforeFacilitator ==
    (/\ vpc \in {"posted", "done"}
     /\ "x402Version" \in DOMAIN vData /\ vData.x402Version # 1) =>
        /\ posted = <<>>
        /\ vpc = "done" /\ vResult.value = FALSE

\* the facilitator could not be used: timeout, connection error, non-200 or
\* a 200 whose body is not a JSON object
Unavailable(reply) ==
    \/ reply.kind # "response"
    \/ reply.status # 200
    \/ reply.body.kind # "dict"

\* the facilitator answered 200 with the verdict isValid: false
InvalidVerdict(reply) ==
    /\ reply.kind = "response" /\ reply.status = 200
    /\ reply.body.kind = "dict"
    /\ "isValid" \in DOMAIN reply.body.json
    /\ reply.body.json.isValid = FALSE

\* C18: what verify_payment hands its caller for an unavailable facilitator
\* differs from what it hands over for a verdict isValid: false, so that the
\* caller can tell an outage from an invalid authorization.
C18_UnavailableDistinctFromInvalid ==
    (/\ vpc = "done" /\ "kind" \in DOMAIN vReply
     /\ Unavailable(vReply)) =>
        \A r \in FacilitatorReplies :
            InvalidVerdict(r) =>
                vResult # [raised |-> VerifyRaises(r), value |-> VerifyOutcome(r)]

\* C19: when the facilitator answers isValid: false with a reason, the
\* result of verification carries that reason to the caller.
C19_ReasonReachesCaller ==
    (/\ vpc = "done" /\ "kind" \in DOMAIN vReply
     /\ InvalidVerdict(vReply)
     /\ "reason" \in DOMAIN vReply.body.json) =>
        /\ "reason" \in DOMAIN vResult
        /\ vResult.reason = vReply.body.json.reason

-----------------------------------------------------------------------------
(* Properties of the payment gate, checked under GateSpec *)

Answered(s) == inflight[s].stage = "answered"

\* the request in slot s is one to a priced path
Priced(s) == inflight[s].stage # "free" /\ inflight[s].path \in PricedPaths

\* the header in slot s is present and is not a decodable payment payload
Undecodable(s) ==
    /\ inflight[s].header # NoHeader
    /\ \/ "raw" \in DOMAIN inflight[s].header
       \/ "b64text" \in DOMAIN inflight[s].header
       \/ /\ "b64" \in DOMAIN inflight[s].header
          /\ \E i \in 1..Len(inflight[s].header.b64) :
                 inflight[s].header.b64[i] = <<<<"x402Version">>, 1>>
          /\ ~\E i \in 1..Len(inflight[s].header.b64) :
                 inflight[s].header.b64[i][1] = <<"payload", "signature">>

\* the decode failure reason of an undecodable header
FailureReason(h) ==
    IF "raw" \in DOMAIN h THEN "Base64Error"
    ELSE IF "b64text" \in DOMAIN h THEN "JsonError"
    ELSE "SchemaError"

\* C16: a request to a priced path without a payment header is never
\* forwarded to the handler; it is answered 402 with a challenge listing
\* exactly one PaymentRequirement, built from the price, asset, network and
\* recipient registered for that path.
C16_NoHeaderGetsOneRequirement ==
    \A s \in Slots :
        (Priced(s) /\ inflight[s].header = NoHeader) =>
            /\ ~inflight[s].ran
            /\ Answered(s) =>
                /\ inflight[s].response.status = 402
                /\ Len(inflight[s].response.body.accepts) = 1
                /\ \E i \in 1..Len(Registrations) :
                    /\ Registrations[i].path = inflight[s].path
                    /\ inflight[s].response.body.accepts[1] =
                           [scheme |-> "exact",
                            network |-> Registrations[i].network_id,
                            maxAmountRequired |-> Registrations[i].amount,
                            payTo |-> Registrations[i].pay_to_address,
                            asset |-> Registrations[i].asset]

C16_Witness ==
    \E s \in Slots :
        /\ Answered(s) /\ inflight[s].path = "/premium"
        /\ inflight[s].header = NoHeader
        /\ inflight[s].response.body.accepts[1].maxAmountRequired = "100000"

\* C17: a request to a priced path whose payment header cannot be decoded
\* (malformed base64, invalid JSON or schema) is answered 402 with the decode
\* failure reason, and the handler is not run.
C17_UndecodableHeaderRejected ==
    \A s \in Slots :
        (Priced(s) /\ Undecodable(s)) =>
            /\ ~inflight[s].ran
            /\ inflight[s].stage \in {"arrived", "answered"}
            /\ Answered(s) =>
                /\ inflight[s].response.status = 402
                /\ "error" \in DOMAIN inflight[s].response.body
                /\ inflight[s].response.body.error = FailureReason(inflight[s].header)

C17_Witness ==
    \E s \in Slots :
        /\ Answered(s) /\ inflight[s].path = "/protected"
        /\ inflight[s].header = [raw |-> "%%%"]
        /\ inflight[s].response.body.error = "Base64Error"

\* the amount app.py registers for each priced path
RegisteredAmount ==
    [p \in {"/protected", "/premium", "/enterprise"} |->
        CASE p = "/protected" -> "10000"
          [] p = "/premium" -> "100000"
          [] p = "/enterprise" -> "1000000"]

\* C20: in every interleaving of requests to /protected, /premium and
\* /enterprise, a 402 answered for a path states the amount registered for
\* that path (10000, 100000, 1000000) and never the amount of another path.
C20_EachPathKeepsItsPrice ==
    \A s \in Slots :
        (/\ Answered(s)
         /\ inflight[s].path \in DOMAIN RegisteredAmount
         /\ inflight[s].response.status = 402) =>
            \A i \in 1..Len(inflight[s].response.body.accepts) :
                inflight[s].response.body.accepts[i].maxAmountRequired =
                    RegisteredAmount[inflight[s].path]

C20_Witness ==
    \E s, t \in Slots :
        /\ Answered(s) /\ Answered(t)
        /\ inflight[s].path = "/protected" /\ inflight[t].path = "/enterprise"
        /\ inflight[s].response.status = 402 /\ inflight[t].response.status = 402
        /\ inflight[s].response.body.accepts[1].maxAmountRequired = "10000"
        /\ inflight[t].response.body.accepts[1].maxAmountRequired = "1000000"

-----------------------------------------------------------------------------
(* Further properties of make_payment_request, checked under Spec *)

PaidAnswered == "status" \in DOMAIN paid

\* C21: the paid request decides the outcome: status 200 gives success with
\* the response data, any other status gives failure with the server's error
\* body surfaced to the caller.
C21_PaidRequestDecides ==
    (pc = "done" /\ PaidAnswered) =>
        IF paid.status = 200
        THEN /\ result.success = TRUE
             /\ "data" \in DOMAIN result
             /\ "json" \in DOMAIN paid.body
             /\ result.data = paid.body.json
        ELSE /\ result.success = FALSE
             /\ "details" \in DOMAIN result
             /\ result.details = paid.body

\* the 402 challenge of this call lists more than one accepted requirement
SeveralAccepted ==
    /\ ProbeAnswered /\ probe.status = 402 /\ probe.body.kind = "dict"
    /\ "accepts" \in DOMAIN probe.body.json
    /\ Len(probe.body.json.accepts) >= 2

\* C22: when the 402 challenge lists several accepted requirements, scheme,
\* network, amount, recipient, resource and asset of the built payload all
\* come from accepts[0], whatever the later entries contain.
C22_FirstAcceptedIsUsed ==
    (SeveralAccepted /\ Len(signerLog) >= 1) =>
        LET first == probe.body.json.accepts[1]
            call  == signerLog[Len(signerLog)]
        IN  /\ call.message.to = first.payTo
            /\ call.message.value = first.maxAmountRequired
            /\ call.domain.verifyingContract = first.asset
            /\ \A i \in PaidRequests :
                LET p == DecodePaymentHeader(sent[i].xpayment).data
                IN  /\ p.scheme = first.scheme
                    /\ p.network = first.network
                    /\ "resource" \in DOMAIN p /\ p.resource = first.resource
                    /\ p.payload.authorization.to = first.payTo
                    /\ p.payload.authorization.value = first.maxAmountRequired

C22_Witness ==
    /\ SeveralAccepted /\ PaidRequests = {2}
    /\ probe.body.json.accepts[2].network = "base"
    /\ DecodePaymentHeader(sent[2].xpayment).data.network = "base-sepolia"
    /\ DecodePaymentHeader(sent[2].xpayment).data.payload.authorization.to = "0xRecipient"

\* C24: within one call the steps run in the order probe, build, sign,
\* encode, retry: the signer is invoked only with a fully built
\* authorization, the payload that is encoded holds the signature the signer
\* returned, and the paid request is sent only with that encoded payload,
\* after the probe was answered.
C24_PipelineInOrder ==
    /\ Len(signerLog) <= Len(built)
    /\ \A i \in 1..Len(signerLog) :
        /\ ProbeAnswered /\ probe.status = 402
        /\ DOMAIN signerLog[i].message = AuthorizationFields
        /\ signerLog[i].message = built[i]
    /\ "kind" \in DOMAIN signature => Len(signerLog) >= 1
    /\ pc = "signing" => Len(signerLog) >= 1 /\ PaidRequests = {} /\ signature = NoValue
    /\ \A i \in PaidRequests :
        /\ i = 2 /\ ~HasPayment(sent[1])
        /\ Len(signerLog) >= 1
        /\ "kind" \in DOMAIN signature
        /\ DecodePaymentHeader(sent[i].xpayment).ok
        /\ DecodePaymentHeader(sent[i].xpayment).data.payload.signature = signature
        /\ signature.message = built[Len(built)]

C24_Witness ==
    /\ pc = "retrying" /\ PaidRequests = {2}
    /\ Len(built) = 1 /\ Len(signerLog) = 1
    /\ DecodePaymentHeader(sent[2].xpayment).data.payload.signature.kind = "hex"

\* C25: the authorization in the transmitted payload equals, in all six
\* fields, the message that was given to the signer, and the server-side
\* decode of the header yields the same six values.
C25_SentAuthorizationIsSignedMessage ==
    \A i \in PaidRequests :
        LET signed  == signerLog[Len(signerLog)].message
            decoded == DecodePaymentHeader(sent[i].xpayment).data.payload.authorization
        IN  /\ DOMAIN decoded = {"from", "to", "value", "validAfter", "validBefore", "nonce"}
            /\ decoded.from = signed.from
            /\ decoded.to = signed.to
            /\ decoded.value = signed.value
            /\ decoded.validAfter = signed.validAfter
            /\ decoded.validBefore = signed.validBefore
            /\ decoded.nonce = signed.nonce

C25_Witness ==
    /\ PaidRequests = {2} /\ Len(signerLog) = 1
    /\ signerLog[1].message.nonce = 2
    /\ signerLog[1].message.validBefore = Str(1 + GraceWindow)
    /\ DecodePaymentHeader(sent[2].xpayment).data.payload.authorization.nonce = 2

\* the recipients the 402 challenge of this call names
NamedRecipients ==
    IF ~(ProbeAnswered /\ probe.body.kind = "dict" /\ "accepts" \in DOMAIN probe.body.json)
    THEN {}
    ELSE {GetKey(probe.body.json.accepts[i], <<"payTo", "pay_to">>)
            : i \in 1..Len(probe.body.json.accepts)} \ {None}

\* C26: in every authorization the client signs, 'to' is the payTo of the
\* requirement selected from the 402 challenge and 'from' is the signer's
\* address; nothing is signed for a recipient the challenge did not name.
C26_SignsOnlyToNamedRecipient ==
    \A i \in 1..Len(signerLog) :
        /\ signerLog[i].message.from = PayerAddress
        /\ signerLog[i].message.to \in NamedRecipients
        /\ signerLog[i].message.to =
               GetKey(probe.body.json.accepts[1], <<"payTo", "pay_to">>)

\* the stage of _create_payment_payload that failed in the finished call
BuildFailed ==
    /\ pc = "done" /\ ProbeAnswered /\ probe.status = 402
    /\ probe.body.kind # "text" /\ built = <<>>

SigningFailed == pc = "done" /\ signerErr

EncodingFailed ==
    /\ pc = "done" /\ "kind" \in DOMAIN signature
    /\ signature.kind = "bytes"

C30_DomainFollowsRequirement ==
    (/\ ProbeAnswered /\ probe.status = 402 /\ probe.body.kind = "dict"
     /\ ~MalformedChallenge(probe.body)) =>
        \A i \in 1..Len(signerLog) :
            LET selected == probe.body.json.accepts[1]
                domain   == signerLog[i].domain
            IN  /\ "asset" \in DOMAIN selected => domain.verifyingContract = selected.asset
                /\ selected.network = "base-sepolia" =>
                       domain = [name |-> "USDC", version |-> "2", chainId |-> 84532,
                                 verifyingContract |-> domain.verifyingContract]
                /\ selected.network # "base-sepolia" => domain.chainId # 84532

-----------------------------------------------------------------------------
(* Further properties of verify_payment, checked under VerifySpec *)

\* C23: two distinct authorizations that reuse one nonce for the same payer
\* are not both accepted: the second presentation of a nonce is rejected.
C23_ReusedNonceRejected ==
    \A a, b \in verified :
        (a.from = b.from /\ a.nonce = b.nonce) => a = b

\* C28: decoding succeeds only for a payload with payload.signature and
\* payload.authorization with all six authorization fields; a payload
\* missing any of them is not passed on to verification.
C28_IncompletePayloadNotVerified ==
    (vpc \in {"posted", "done"} /\ ~CompletePayload(vData)) =>
        /\ posted = <<>>
        /\ vpc = "done" /\ vResult.value = FALSE

\* C29: the body posted to the facilitator carries x402Version, scheme,
\* network, signature and the six authorization fields under the same names
\* and with the same values as the payment payload it was made from.
C29_FacilitatorBodyUnaltered ==
    \A i \in 1..Len(posted) :
        /\ DOMAIN posted[i] = {"x402Version", "scheme", "network", "payload"}
        /\ DOMAIN posted[i].payload = {"signature", "authorization"}
        /\ DOMAIN posted[i].payload.authorization = AuthorizationFields
        /\ \A k \in {"x402Version", "scheme", "network"} :
               k \in DOMAIN vData => posted[i][k] = vData[k]
        /\ "payload" \in DOMAIN vData =>
            /\ "signature" \in DOMAIN vData.payload =>
                   posted[i].payload.signature = vData.payload.signature
            /\ "authorization" \in DOMAIN vData.payload =>
                   \A f \in DOMAIN vData.payload.authorization :
                       posted[i].payload.authorization[f] = vData.payload.authorization[f]

C29_Witness ==
    /\ vpc = "posted" /\ Len(posted) = 1
    /\ CompletePayload(vData)
    /\ vArgs.receiving_address = "0xOther"
    /\ posted[1].payload.authorization.to = "0xRecipient"
    /\ posted[1].payload.authorization.value = "100000"

-----------------------------------------------------------------------------
(* Property of calls running together, checked under ConcSpec *)

\* the result a call with these probe, signer and payment outcomes has when
\* it runs alone
ResultAlone(k) ==
    IF "status" \notin DOMAIN k.probe THEN ExceptionResult(<<"ClientConnectorError">>)
    ELSE IF k.probe.status # 402 THEN OtherStatusResult(k.probe.status, k.probe.body)
    ELSE IF "kind" \notin DOMAIN k.signature
    THEN ExceptionResult(<<"Payment payload creation failed", "Failed to sign payment data">>)
    ELSE IF k.signature.kind # "hex"
    THEN ExceptionResult(<<"Payment payload creation failed",
                           "Failed to encode payment payload">>)
    ELSE IF "status" \notin DOMAIN k.paid THEN ExceptionResult(<<"ClientConnectorError">>)
    ELSE IF k.paid.status = 200
    THEN [success |-> TRUE, data |-> k.paid.body.json,
          cost |-> k.probe.body.json.accepts[1].maxAmountRequired]
    ELSE [success |-> FALSE, error |-> <<"Payment failed", StatusText[k.paid.status]>>,
          details |-> k.paid.body]

\* C31: two calls in flight together, interleaved at their suspension points,
\* do not affect each other: each sends a payload built from the requirement
\* it discovered itself, with its own nonce, window and signature, and its
\* result is the one it would have had running alone.
C31_CallsAreIndependent ==
    \A c \in Callers :
        LET k == calls[c]
        IN  k.pc # "idle" =>
            /\ "nonce" \in DOMAIN k.auth =>
                LET own == k.probe.body.json.accepts[1]
                IN  /\ k.auth.nonce = k.builtAt.nonce
                    /\ k.auth.validBefore = Str(k.builtAt.at + GraceWindow)
                    /\ k.auth.to = GetKey(own, <<"payTo", "pay_to">>)
                    /\ k.auth.value = own.maxAmountRequired
                    /\ k.signed.message = k.auth
                    /\ k.signed.domain.verifyingContract = own.asset
            /\ \A i \in 1..Len(k.sent) :
                HasPayment(k.sent[i]) =>
                    LET p == DecodePaymentHeader(k.sent[i].xpayment).data
                    IN  /\ p.payload.authorization = k.auth
                        /\ p.payload.signature = k.signature
                        /\ k.signature.message = k.auth
                        /\ p.network = k.probe.body.json.accepts[1].network
            /\ k.pc = "done" => k.result = ResultAlone(k)

C31_Witness ==
    /\ calls["a"].pc = "retrying" /\ calls["b"].pc = "retrying"
    /\ calls["a"].auth.to = "0xRecipient" /\ calls["b"].auth.to = "0xOther"
    /\ calls["a"].auth.nonce # calls["b"].auth.nonce
    /\ calls["a"].builtAt.at = 1 /\ calls["b"].builtAt.at = 0
    /\ DecodePaymentHeader(calls["b"].sent[2].xpayment).data.network = "base"

-----------------------------------------------------------------------------
(* Further properties of the payment gate, checked under GateSpec *)

FromMembers(h) ==
    IF "b64" \notin DOMAIN h THEN {}
    ELSE {h.b64[i][2] : i \in {j \in 1..Len(h.b64) :
                                  h.b64[j][1] = <<"payload", "authorization", "from">>}}

\* C33: when a paid request is forwarded, the paidBy value of the response
\* is payload.authorization.from of the request's payment header.
C33_PaidByIsPayer ==
    \A s \in Slots :
        (Priced(s) /\ Answered(s) /\ inflight[s].ran) =>
            /\ inflight[s].response.status = 200
            /\ "paidBy" \in DOMAIN inflight[s].response
            /\ FromMembers(inflight[s].header) = {inflight[s].response.paidBy}

C33_Witness ==
    \E s \in Slots :
        /\ Answered(s) /\ inflight[s].ran /\ inflight[s].path = "/enterprise"
        /\ inflight[s].response.paidBy = PayerAddress

\* C39: for any header value get_client_from_payment returns the
\* payload.authorization.from string when that is a string starting with
\* '0x', and the literal 'unknown' otherwise (header absent, not base64, not
\* JSON, field missing or not a 0x string).
C39_ClientIsPayerOrUnknown ==
    \A s \in Slots :
        inflight[s].stage # "free" =>
            LET h == inflight[s].header
                good == {v \in FromMembers(h) : StartsWith0x(v)}
            IN  IF good # {}
                THEN {GetClientFromPayment(h)} = good
                ELSE GetClientFromPayment(h) = "unknown"

C39_Witness ==
    \E s, t \in Slots :
        /\ inflight[s].stage = "arrived" /\ inflight[t].stage = "arrived"
        /\ FromMembers(inflight[s].header) = {"payer.eth"}
        /\ GetClientFromPayment(inflight[s].header) = "unknown"
        /\ FromMembers(inflight[t].header) = {PayerAddress}
        /\ \A i \in 1..Len(inflight[t].header.b64) :
               inflight[t].header.b64[i][1] # <<"payload", "signature">>
        /\ GetClientFromPayment(inflight[t].header) = PayerAddress

-----------------------------------------------------------------------------
(* Error handling of make_payment_request, checked under Spec *)

\* C34: every failed result of make_payment_request carries a status_code
\* member, so that result['status_code'] can be read whenever success is false.
C34_FailedResultHasStatusCode ==
    CallFailed => "status_code" \in DOMAIN result

\* _extract_payment_requirements raised on the parsed challenge
ExtractionRaised ==
    /\ ProbeAnswered /\ probe.status = 402 /\ probe.body.kind # "text"
    /\ ~ExtractPaymentRequirements(probe.body).ok

\* an exception was raised somewhere in the finished call: by the probe, by
\* response.json(), by the extraction, by the build, the signer or the
\* encoding, by the paid request or by payment_response.json()
RaisedInCall ==
    /\ pc = "done"
    /\ \/ ~ProbeAnswered
       \/ probe.status = 402 /\ probe.body.kind = "text"
       \/ ExtractionRaised
       \/ BuildFailed
       \/ SigningFailed
       \/ EncodingFailed
       \/ PaidRequests # {} /\ "status" \notin DOMAIN paid
       \/ "status" \in DOMAIN paid /\ paid.status = 200 /\ paid.body.kind = "text"

\* C35: make_payment_request never raises: a call in which an exception was
\* raised ends with a result of success false and an error text, never with
\* success true.
C35_ExceptionsBecomeFailures ==
    /\ pc = "done" => "success" \in DOMAIN result
    /\ RaisedInCall =>
        /\ result.success = FALSE
        /\ "error" \in DOMAIN result
        /\ result.error # <<>>

\* one of scheme, network, amount, recipient handed to _create_payment_payload
\* is None or empty
MissingParameter ==
    /\ reqs # NoValue
    /\ \E k \in {"scheme", "network", "amount", "recipient"} :
           PayloadArgs(reqs, cost, config)[k] \in {None, ""}

\* C36: the signer is invoked only with scheme, network, amount and recipient
\* all non-empty; when one is missing PaymentPayloadError is raised before an
\* authorization is built or signed.
C36_SignerNeedsAllParameters ==
    /\ signerLog # <<>> => reqs # NoValue /\ ~MissingParameter
    /\ MissingParameter =>
        /\ built = <<>>
        /\ signerLog = <<>>
        /\ auth = NoValue
        /\ PaidRequests = {}
        /\ pc \in {"done", "idle"}
        /\ result = ExceptionResult(<<"Payment payload creation failed",
                                      "Missing required parameters for payment payload">>)

C36_Witness ==
    /\ MissingParameter
    /\ PayloadArgs(reqs, cost, config).amount = None
    /\ Truthy(PayloadArgs(reqs, cost, config).recipient)
    /\ pc = "done" /\ result.success = FALSE

-----------------------------------------------------------------------------
(* Frame of _create_facilitator_payload, checked under VerifySpec *)

-----------------------------------------------------------------------------
(* Property of the tier commands, checked under CommandSpec *)

\* the balance lookup of the running command came back with a positive amount
PositiveBalance ==
    /\ cmd.lookup.kind = "usdc"
    /\ cmd.lookup.amount > 0

\* C38: a tier command sends no request to the server, probe or payment,
\* unless the balance check returned a balance greater than zero; a zero
\* balance, a negative balance or a failed lookup ends the command before any
\* client is created.
C38_NoRequestWithoutBalance ==
    /\ (cmd.requests # <<>> \/ cmd.client) =>
        /\ PositiveBalance
        /\ cmd.balance = [kind |-> "value", v |-> cmd.lookup.amount]
    /\ (cmd.lookup.kind # "pending" /\ ~PositiveBalance) =>
        /\ cmd.pc = "ended"
        /\ cmd.balance = NoBalance
        /\ ~cmd.client
        /\ cmd.requests = <<>>
        /\ cmd.result = NoValue

C38_Witness ==
    /\ cmd.pc = "ended"
    /\ cmd.lookup.kind = "usdc" /\ cmd.lookup.amount = 0
    /\ ~cmd.client /\ cmd.requests = <<>>

=============================================================================
